---------------------------- MODULE Spec2Model ----------------------------
(***************************************************************************)
(* A model of the arXiv API client (package arxiv): the option model and   *)
(* its defaulting rules, the query-string encoder, the request builder,    *)
(* the transport invoker Client.Do, the feed decoder and the e-print       *)
(* service (Get, List), and SearchOptions.String.                          *)
(*                                                                         *)
(* A Go string is modelled as a sequence of tokens.  A token is one        *)
(* character ("a", ",", "&", " ") or an atomic piece of text that the      *)
(* program never looks inside ("id_list", "relevance", "%2C").  The empty  *)
(* string is the empty sequence.                                           *)
(***************************************************************************)
EXTENDS Integers, Sequences, FiniteSets, TLC

(***************************************************************************)
(* Bounds of the model.                                                    *)
(***************************************************************************)
\* longest id list of an EprintListOptions value
MaxIds == 2
\* largest |MaxResults| and |Start| drawn for an options value
MaxInt == 2
\* most child elements of a <feed> document the transport returns
MaxChildren == 2

(***************************************************************************)
(* Strings (sequences of tokens).                                          *)
(***************************************************************************)
Str(t) == <<t>>

RECURSIVE Concat(_)
\* the concatenation of a sequence of strings
Concat(ss) == IF ss = <<>> THEN <<>> ELSE Head(ss) \o Concat(Tail(ss))

RECURSIVE Join(_, _)
\* strings.Join(elems, sep)
Join(elems, sep) ==
    IF elems = <<>> THEN <<>>
    ELSE IF Len(elems) = 1 THEN elems[1]
    ELSE elems[1] \o sep \o Join(Tail(elems), sep)

RECURSIVE Split(_, _)
\* strings.Split(s, sep) for a one-token separator: always at least one piece
Split(s, sep) ==
    IF \A i \in 1..Len(s) : s[i] # sep THEN <<s>>
    ELSE LET i == CHOOSE j \in 1..Len(s) :
                      s[j] = sep /\ \A k \in 1..(j - 1) : s[k] # sep
         IN <<SubSeq(s, 1, i - 1)>> \o Split(SubSeq(s, i + 1, Len(s)), sep)

DigitTok(d) == <<"0", "1", "2", "3", "4", "5", "6", "7", "8", "9">>[d + 1]

RECURSIVE Digits(_)
Digits(n) == IF n < 10 THEN <<DigitTok(n)>>
             ELSE Digits(n \div 10) \o <<DigitTok(n % 10)>>

\* strconv.Itoa, as go-querystring formats an int field
Itoa(n) == IF n < 0 THEN <<"-">> \o Digits(0 - n) ELSE Digits(n)

DigitVal(t) == CHOOSE d \in 0..9 : DigitTok(d) = t

RECURSIVE Number(_)
Number(s) == IF s = <<>> THEN 0
             ELSE 10 * Number(SubSeq(s, 1, Len(s) - 1)) + DigitVal(s[Len(s)])

\* strconv.Atoi on a string Itoa produced
Atoi(s) == IF s # <<>> /\ s[1] = "-" THEN 0 - Number(Tail(s)) ELSE Number(s)

(***************************************************************************)
(* net/url: escaping, url.Values.Encode, URL.String, url.Parse and         *)
(* URL.ResolveReference, as far as the client uses them.                   *)
(***************************************************************************)
\* the characters url.QueryEscape rewrites, with what it writes for them
Escapes == <<
    <<" ", "+">>, <<",", "%2C">>, <<"&", "%26">>,
    <<"=", "%3D">>, <<"+", "%2B">>, <<"%", "%25">>, <<"?", "%3F">> >>

EscapeTok(t) ==
    IF \E i \in 1..Len(Escapes) : Escapes[i][1] = t
    THEN Escapes[CHOOSE i \in 1..Len(Escapes) : Escapes[i][1] = t][2]
    ELSE t

UnescapeTok(t) ==
    IF \E i \in 1..Len(Escapes) : Escapes[i][2] = t
    THEN Escapes[CHOOSE i \in 1..Len(Escapes) : Escapes[i][2] = t][1]
    ELSE t

QueryEscape(s) == [i \in 1..Len(s) |-> EscapeTok(s[i])]

QueryUnescape(s) == [i \in 1..Len(s) |-> UnescapeTok(s[i])]

\* the wire keys of EprintListOptions in byte order, the order in which
\* url.Values.Encode writes them (it sorts the keys)
SortedKeys ==
    <<"id_list", "max_results", "search_query", "sortBy", "sortOrder", "start">>

\* one pair of a url.Values: a key with one of its values
Pair(k, v) == [key |-> k, val |-> v]

\* url.Values.Encode: key=value pairs, both escaped, sorted by key, a key's
\* values in the order they were added, joined by "&"
Encode(vals) ==
    LET ofKey(k) == SelectSeq(vals, LAMBDA p : p.key = k)
        all == Concat([i \in 1..Len(SortedKeys) |-> ofKey(SortedKeys[i])])
        kv(p) == QueryEscape(Str(p.key)) \o <<"=">> \o QueryEscape(p.val)
    IN Join([i \in 1..Len(all) |-> kv(all[i])], <<"&">>)


\* a url.URL: the fields the client sets or reads
URL(scheme, host, path, rawQuery) ==
    [Scheme |-> scheme, Host |-> host, Path |-> path, RawQuery |-> rawQuery]

\* URL.String: scheme://host, then the path, then ?query when there is one
URLString(u) ==
    (IF u.Scheme # <<>> THEN u.Scheme \o <<"://">> \o u.Host ELSE <<>>)
    \o u.Path
    \o (IF u.RawQuery # <<>> THEN <<"?">> \o u.RawQuery ELSE <<>>)

\* url.Parse: the scheme and host when the text has them, the path up to
\* the first "?", the raw query after it
Parse(s) ==
    LET abs == Len(s) >= 3 /\ s[2] = "://"
        rest == IF abs THEN SubSeq(s, 4, Len(s)) ELSE s
        parts == Split(rest, "?")
    IN URL(IF abs THEN Str(s[1]) ELSE <<>>,
           IF abs THEN Str(s[3]) ELSE <<>>,
           parts[1],
           SubSeq(rest, Len(parts[1]) + 2, Len(rest)))

\* URL.ResolveReference for a reference without scheme and host: a relative
\* path replaces what follows the last "/" of the base path, and the query
\* is the reference's
ResolveReference(base, ref) ==
    LET slashes == {i \in 1..Len(base.Path) : base.Path[i] = "/"}
        last == IF slashes = {} THEN 0
                ELSE CHOOSE i \in slashes : \A j \in slashes : j <= i
        path == IF ref.Path = <<>> THEN base.Path
                ELSE IF ref.Path[1] = "/" THEN ref.Path
                ELSE SubSeq(base.Path, 1, last) \o ref.Path
    IN URL(base.Scheme, base.Host, path, ref.RawQuery)

\* URL.RequestURI: the path and the query, as the request line carries them
RequestURI(u) ==
    u.Path \o (IF u.RawQuery # <<>> THEN <<"?">> \o u.RawQuery ELSE <<>>)

(***************************************************************************)
(* The option model (client.go, eprints.go).                               *)
(***************************************************************************)
DefaultMaxResults == 1000

DefaultSortBy == Str("relevance")

DefaultSortOrder == Str("descending")

\* an EprintListOptions value, the embedded QueryOptions flattened
EprintListOptions(search, idList, maxResults, start, sortBy, sortOrder) ==
    [Search |-> search, IDList |-> idList, MaxResults |-> maxResults,
     Start |-> start, SortBy |-> sortBy, SortOrder |-> sortOrder]

\* &EprintListOptions{}: every field at its zero value
ZeroOptions == EprintListOptions(<<>>, <<>>, 0, 0, <<>>, <<>>)

\* a *EprintListOptions: nil, or pointing at a value
NilOptions == [nil |-> TRUE, v |-> ZeroOptions]

Ref(o) == [nil |-> FALSE, v |-> o]

MaxResultsOrDefault(o) ==
    IF o.MaxResults < 1 THEN DefaultMaxResults ELSE o.MaxResults

StartOrDefault(o) == IF o.Start < 0 THEN 0 ELSE o.Start

\* SortByOrDefault with the comparison against "submittedDate" left out
SortByOrDefaultTwoNames(o) ==
    LET by == o.SortBy
    IN IF by # Str("relevance") /\ by # Str("lastUpdatedDate")
       THEN DefaultSortBy
       ELSE by

SortByOrDefault(o) ==
    LET by == o.SortBy
    IN IF by # Str("relevance") /\ by # Str("lastUpdatedDate")
          /\ by # Str("submittedDate")
       THEN DefaultSortBy
       ELSE by

SortOrderOrDefault(o) ==
    LET order == o.SortOrder
    IN IF order # Str("descending") /\ order # Str("ascending")
       THEN DefaultSortOrder
       ELSE order

(***************************************************************************)
(* The query encoder: query.Values over the struct tags, addOptions, url.  *)
(***************************************************************************)
\* a field tagged omitempty: no pair when the field is empty
Field(key, val, empty) == IF empty THEN <<>> ELSE <<Pair(key, val)>>

\* query.Values(opt) with the comma option left out of the id_list tag:
\* each element of the list makes a pair of its own
ValuesNoComma(o) ==
    Field("search_query", o.Search, o.Search = <<>>)
    \o [i \in 1..Len(o.IDList) |-> Pair("id_list", o.IDList[i])]
    \o Field("max_results", Itoa(o.MaxResults), o.MaxResults = 0)
    \o Field("start", Itoa(o.Start), o.Start = 0)
    \o Field("sortBy", o.SortBy, o.SortBy = <<>>)
    \o Field("sortOrder", o.SortOrder, o.SortOrder = <<>>)

\* query.Values(opt): the pairs of the tagged fields in declaration order,
\* the embedded QueryOptions last; id_list is tagged comma, so its elements
\* make one value joined by ","
Values(o) ==
    Field("search_query", o.Search, o.Search = <<>>)
    \o Field("id_list", Join(o.IDList, <<",">>), Len(o.IDList) = 0)
    \o Field("max_results", Itoa(o.MaxResults), o.MaxResults = 0)
    \o Field("start", Itoa(o.Start), o.Start = 0)
    \o Field("sortBy", o.SortBy, o.SortBy = <<>>)
    \o Field("sortOrder", o.SortOrder, o.SortOrder = <<>>)

\* addOptions(u, opt): a nil pointer leaves u alone
addOptions(u, opt) ==
    IF opt.nil THEN u ELSE [u EXCEPT !.RawQuery = Encode(Values(opt.v))]

\* Client.url(apiRouteName, opt); the receiver is not read
url(apiRouteName, opt) ==
    addOptions(URL(<<>>, <<>>, Str(apiRouteName), <<>>), opt)

(***************************************************************************)
(* Reading a query string back: url.ParseQuery, then each field from the   *)
(* first value of its key, id_list split on commas.                        *)
(***************************************************************************)
ParseQuery(qs) ==
    IF qs = <<>> THEN <<>>
    ELSE LET pieces == Split(qs, "&")
             kv(piece) ==
                 LET k == Split(piece, "=")[1]
                 IN Pair(QueryUnescape(k),
                         QueryUnescape(SubSeq(piece, Len(k) + 2, Len(piece))))
         IN [i \in 1..Len(pieces) |-> kv(pieces[i])]

\* whether the parsed query has the key
Has(pairs, key) == \E i \in 1..Len(pairs) : pairs[i].key = Str(key)

\* the first value of the key (url.Values.Get), "" when absent
ValueOf(pairs, key) ==
    IF Has(pairs, key)
    THEN pairs[CHOOSE i \in 1..Len(pairs) :
                   pairs[i].key = Str(key)
                   /\ \A j \in 1..(i - 1) : pairs[j].key # Str(key)].val
    ELSE <<>>

DecodeOptions(qs) ==
    LET p == ParseQuery(qs)
        int(key) == IF Has(p, key) THEN Atoi(ValueOf(p, key)) ELSE 0
    IN EprintListOptions(
           ValueOf(p, "search_query"),
           IF Has(p, "id_list") THEN Split(ValueOf(p, "id_list"), ",") ELSE <<>>,
           int("max_results"), int("start"),
           ValueOf(p, "sortBy"), ValueOf(p, "sortOrder"))

(***************************************************************************)
(* State.                                                                  *)
(***************************************************************************)
VARIABLES
    \* the e-print service over one shared client
    client,     \* the Client: BaseURL and httpClient
    pc,         \* each caller's position: "idle", "transport", "response", "done"
    call,       \* each caller's operation and arguments
    req,        \* the request each caller handed to the transport
    sent,       \* how many requests each caller handed to the transport
    tr,         \* what the transport returned to each caller
    body,       \* how often each caller's response body was closed
    ret,        \* what each caller's operation returned
    \* the option model on its own
    opt,        \* an EprintListOptions value
    stage,      \* "start", "encoded", "parsed" or "effective"
    qs,         \* the query string encoded from opt
    back,       \* the options read back from qs
    eff,        \* the effective pagination values of opt
    \* SearchOptions.String on its own
    sopt,       \* a SearchOptions value
    sres        \* <<>> before the call, <<the returned string>> after it

clientVars == <<client, pc, call, req, sent, tr, body, ret>>

optVars == <<opt, stage, qs, back, eff>>

searchVars == <<sopt, sres>>

vars == <<clientVars, optVars, searchVars>>

(***************************************************************************)
(* The option model on its own: options drawn from bounded sets, encoded   *)
(* as List encodes them, read back, and normalised.                        *)
(***************************************************************************)
\* search texts: empty, plain, and with the characters a query string escapes
Texts == {<<>>, <<"a">>, <<"a", " ", "b">>, <<"a", "&", "b", "=", "%", "+">>}

\* e-print ids: empty, plain, and one holding a comma
Ids == {<<>>, <<"2101.00001">>, <<"1", ",", "2">>}

RECURSIVE SeqsUpTo(_, _)
\* the sequences over S of length at most n
SeqsUpTo(S, n) ==
    IF n = 0 THEN {<<>>}
    ELSE LET shorter == SeqsUpTo(S, n - 1)
         IN shorter \cup {Append(q, x) : q \in shorter, x \in S}

Ints == (0 - MaxInt)..MaxInt

SortBys == {<<>>, Str("relevance"), Str("lastUpdatedDate"),
            Str("submittedDate"), Str("bogus")}

SortOrders == {<<>>, Str("ascending"), Str("descending"), Str("bogus")}

OptionValues ==
    {EprintListOptions(s, ids, m, st, by, ord) :
        s \in Texts, ids \in SeqsUpTo(Ids, MaxIds),
        m \in Ints \cup {DefaultMaxResults}, st \in Ints \cup {10},
        by \in SortBys, ord \in SortOrders}

\* the effective pagination values of an options value
EffectiveOf(o) ==
    [maxResults |-> MaxResultsOrDefault(o), start |-> StartOrDefault(o),
     sortBy |-> SortByOrDefault(o), sortOrder |-> SortOrderOrDefault(o)]

OptInitIdle ==
    /\ opt = ZeroOptions
    /\ stage = "start"
    /\ qs = <<>>
    /\ back = ZeroOptions
    /\ eff = EffectiveOf(ZeroOptions)

OptInit ==
    /\ opt \in OptionValues
    /\ stage = "start"
    /\ qs = <<>>
    /\ back = ZeroOptions
    /\ eff = EffectiveOf(ZeroOptions)

\* the query string of the URL that url("query", &opt) builds
EncodeOptions ==
    /\ stage = "start"
    /\ qs' = url("query", Ref(opt)).RawQuery
    /\ stage' = "encoded"
    /\ UNCHANGED <<opt, back, eff>>

\* the query string read back
ParseBack ==
    /\ stage = "encoded"
    /\ back' = DecodeOptions(qs)
    /\ stage' = "parsed"
    /\ UNCHANGED <<opt, qs, eff>>

\* the four OrDefault methods applied to opt
Effective ==
    /\ stage = "start"
    /\ eff' = EffectiveOf(opt)
    /\ stage' = "effective"
    /\ UNCHANGED <<opt, qs, back>>

(***************************************************************************)
(* SearchOptions.String (eprints.go).                                      *)
(***************************************************************************)
SearchOptions(title, author, abstract, journalReference, category, all) ==
    [Title |-> title, Author |-> author, Abstract |-> abstract,
     JournalReference |-> journalReference, Category |-> category, All |-> all]

\* the keys of the map m that String fills
SearchKeys == {"ti", "au", "abs", "jr", "cat"}

\* the orders in which a range over m may yield its five keys: Go leaves the
\* iteration order of a map unspecified
Orders ==
    {q \in [1..Cardinality(SearchKeys) -> SearchKeys] :
        \A i, j \in DOMAIN q : i # j => q[i] # q[j]}

\* the map m
SearchMap(o) ==
    [k \in SearchKeys |->
        CASE k = "ti" -> o.Title
          [] k = "au" -> o.Author
          [] k = "abs" -> o.Abstract
          [] k = "jr" -> o.JournalReference
          [] k = "cat" -> o.Category]

\* fmt.Sprintf("%s:%s", k, v)
Clause(k, v) == Str(k) \o <<":">> \o v

\* String with the test v != "" left out: a clause for every key
StringEveryKey(o, order) ==
    IF o.All # <<>> THEN Clause("all", o.All)
    ELSE LET m == SearchMap(o)
             q == [i \in 1..Len(order) |-> Clause(order[i], m[order[i]])]
         IN Join(q, <<" AND ">>)

\* opt.String(), the range over m yielding its keys in the given order
String(o, order) ==
    IF o.All # <<>> THEN Clause("all", o.All)
    ELSE LET m == SearchMap(o)
             yielded == SelectSeq(order, LAMBDA k : m[k] # <<>>)
             q == [i \in 1..Len(yielded) |-> Clause(yielded[i], m[yielded[i]])]
         IN Join(q, <<" AND ">>)

\* the values a field of a SearchOptions is drawn from
SearchTexts == {<<>>, <<"foo">>, <<"quantum", " ", "computing">>}

SearchValues ==
    {SearchOptions(t, au, ab, jr, cat, all) :
        t \in SearchTexts, au \in SearchTexts, ab \in SearchTexts,
        jr \in SearchTexts, cat \in SearchTexts, all \in SearchTexts}

ZeroSearch == SearchOptions(<<>>, <<>>, <<>>, <<>>, <<>>, <<>>)

SearchInitIdle == sopt = ZeroSearch /\ sres = <<>>

SearchInit == sopt \in SearchValues /\ sres = <<>>

\* one call of sopt.String()
CallString ==
    /\ sres = <<>>
    /\ \E order \in Orders : sres' = <<String(sopt, order)>>
    /\ UNCHANGED sopt

(***************************************************************************)
(* The client, the transport invoker and the feed decoder (client.go,      *)
(* eprints.go).  eprints.go reaches NewRequest and Do through the names    *)
(* newRequest and do.                                                      *)
(***************************************************************************)
\* a nil pointer, and a pointer to x
NilPtr == <<>>

Ptr(x) == <<x>>

\* an error value: what it is, and for the error Do builds, the request
\* method, the request URI and the text of the underlying cause
Err(kind, method, uri, cause) ==
    [kind |-> kind, method |-> method, uri |-> uri, cause |-> cause]

NoError == Err("nil", "", <<>>, "")

ErrEprintNotFound == Err("e-print not found", "", <<>>, "")

\* an error of the http client: the request could not be carried out
TransportError == Err("http client error", "", <<>>, "")

\* NewClient(nil)
NewClient ==
    [BaseURL |-> URL(Str("http"), Str("export.arxiv.org"),
                     <<"/", "api", "/">>, <<>>),
     httpClient |-> "http.DefaultClient"]

\* NewRequest resolving the reference into the client's own BaseURL
NewRequestInPlace(c, method, urlStr) ==
    LET rel == Parse(urlStr)
        u == ResolveReference(c.BaseURL, rel)
    IN [req |-> [Method |-> method, URL |-> Parse(URLString(u))],
        client |-> [c EXCEPT !.BaseURL = u]]

\* c.NewRequest(method, urlStr, nil): the request, and the client as the
\* call leaves it.  http.NewRequest parses the text of the resolved URL.
NewRequest(c, method, urlStr) ==
    LET rel == Parse(urlStr)
        u == ResolveReference(c.BaseURL, rel)
    IN [req |-> [Method |-> method, URL |-> Parse(URLString(u))],
        client |-> c]

\* a child element of a <feed> document: a title, or an entry with its id
Element(tag, id) == [tag |-> tag, id |-> id]

Elements == {Element("title", ""), Element("entry", "e1"), Element("entry", "e2")}

\* a response body: a stream that fails while it is read, bytes that are not
\* well-formed XML, a well-formed document with another root element, or a
\* <feed> document with its child elements in document order
Body(kind, children) == [kind |-> kind, children |-> children]

Bodies ==
    {Body("ioerror", <<>>), Body("malformed", <<>>), Body("html", <<>>)}
    \cup {Body("feed", ch) : ch \in SeqsUpTo(Elements, MaxChildren)}

\* what c.httpClient.Do(req) returns: an error, or a response with a body
Outcomes ==
    {[err |-> TransportError, body |-> Body("none", <<>>)]}
    \cup {[err |-> NoError, body |-> b] : b \in Bodies}

\* an Eprint, by its id element
Eprint(id) == [ID |-> id]

\* the zero EprintsFeed
EmptyFeed == [Entry |-> <<>>]

\* ioutil.ReadAll(resp.Body): the cause of a failure ("" for none)
ReadAll(b) == IF b.kind = "ioerror" THEN "unexpected EOF" ELSE ""

\* Entry declared *Eprint instead of []*Eprint: each entry element
\* overwrites the one before
DecodeEntryLast(children) ==
    LET es == SelectSeq(children, LAMBDA e : e.tag = "entry")
    IN IF es = <<>> THEN <<>> ELSE <<Eprint(es[Len(es)].id)>>

\* the Entry field an EprintsFeed gets from the children of <feed>: one
\* Eprint for each entry element, appended in document order
DecodeEntry(children) ==
    LET es == SelectSeq(children, LAMBDA e : e.tag = "entry")
    IN [i \in 1..Len(es) |-> Eprint(es[i].id)]

\* xml.NewDecoder(resp.Body).Decode(&feed): the cause of a failure ("" for
\* none) and the feed
XMLDecode(b) ==
    CASE b.kind = "ioerror" -> [cause |-> "unexpected EOF", feed |-> EmptyFeed]
      [] b.kind = "malformed" -> [cause |-> "XML syntax error", feed |-> EmptyFeed]
      [] b.kind = "html" ->
            [cause |-> "expected element type <feed> but have <html>",
             feed |-> EmptyFeed]
      [] OTHER -> [cause |-> "", feed |-> [Entry |-> DecodeEntry(b.children)]]

\* the destinations v that Do is given: nil, a *[]byte, an *EprintsFeed
Destinations == {"nil", "bytes", "feed"}

\* Do returning the cause of a failed read or decode as it is
DoBareCause(r, v, t) ==
    IF t.err # NoError
    THEN [resp |-> NilPtr, err |-> t.err, feed |-> EmptyFeed, closes |-> 0]
    ELSE LET dec == XMLDecode(t.body)
             cause == CASE v = "nil" -> ""
                        [] v = "bytes" -> ReadAll(t.body)
                        [] OTHER -> dec.cause
         IN IF cause # ""
            THEN [resp |-> NilPtr, err |-> Err(cause, "", <<>>, ""),
                  feed |-> EmptyFeed, closes |-> 1]
            ELSE [resp |-> Ptr(t.body), err |-> NoError,
                  feed |-> IF v = "feed" THEN dec.feed ELSE EmptyFeed,
                  closes |-> 1]

\* Do closing the body before a successful return only, without defer
DoCloseOnSuccess(r, v, t) ==
    IF t.err # NoError
    THEN [resp |-> NilPtr, err |-> t.err, feed |-> EmptyFeed, closes |-> 0]
    ELSE LET dec == XMLDecode(t.body)
             cause == CASE v = "nil" -> ""
                        [] v = "bytes" -> ReadAll(t.body)
                        [] OTHER -> dec.cause
         IN IF cause # ""
            THEN [resp |-> NilPtr,
                  err |-> Err("error reading response", r.Method,
                              RequestURI(r.URL), cause),
                  feed |-> EmptyFeed, closes |-> 0]
            ELSE [resp |-> Ptr(t.body), err |-> NoError,
                  feed |-> IF v = "feed" THEN dec.feed ELSE EmptyFeed,
                  closes |-> 1]

\* c.Do(r, v) once c.httpClient.Do(r) has returned t: the response and the
\* error returned, the feed decoded into v, and how often resp.Body.Close
\* ran (the deferred call runs as Do returns, whatever it returns)
Do(r, v, t) ==
    IF t.err # NoError
    THEN [resp |-> NilPtr, err |-> t.err, feed |-> EmptyFeed, closes |-> 0]
    ELSE LET dec == XMLDecode(t.body)
             cause == CASE v = "nil" -> ""
                        [] v = "bytes" -> ReadAll(t.body)
                        [] OTHER -> dec.cause
         IN IF cause # ""
            THEN [resp |-> NilPtr,
                  err |-> Err("error reading response", r.Method,
                              RequestURI(r.URL), cause),
                  feed |-> EmptyFeed, closes |-> 1]
            ELSE [resp |-> Ptr(t.body), err |-> NoError,
                  feed |-> IF v = "feed" THEN dec.feed ELSE EmptyFeed,
                  closes |-> 1]

\* a []*Eprint: nil, or the elements
NilSlice == [nil |-> TRUE, elems |-> <<>>]

Slice(elems) == [nil |-> FALSE, elems |-> elems]

\* the options Get builds: opt.IDList = append(opt.IDList, id)
GetOptions(id) == Ref([ZeroOptions EXCEPT !.IDList = Append(@, id)])

\* Get returning the last entry of the feed
GetResultLast(d) ==
    IF d.err # NoError THEN [val |-> NilPtr, err |-> d.err]
    ELSE IF Len(d.feed.Entry) = 0
    THEN [val |-> NilPtr, err |-> ErrEprintNotFound]
    ELSE [val |-> Ptr(d.feed.Entry[Len(d.feed.Entry)]), err |-> NoError]

\* Get after s.client.do(req, &feed) returned d
GetResult(d) ==
    IF d.err # NoError THEN [val |-> NilPtr, err |-> d.err]
    ELSE IF Len(d.feed.Entry) = 0
    THEN [val |-> NilPtr, err |-> ErrEprintNotFound]
    ELSE [val |-> Ptr(d.feed.Entry[1]), err |-> NoError]

\* List without the test len(eprints) == 0
ListResultNoCheck(d) ==
    IF d.err # NoError THEN [val |-> NilSlice, err |-> d.err]
    ELSE [val |-> Slice(d.feed.Entry), err |-> NoError]

\* List after s.client.do(req, &feed) returned d
ListResult(d) ==
    IF d.err # NoError THEN [val |-> NilSlice, err |-> d.err]
    ELSE IF Len(d.feed.Entry) = 0
    THEN [val |-> NilSlice, err |-> ErrEprintNotFound]
    ELSE [val |-> Slice(d.feed.Entry), err |-> NoError]

(***************************************************************************)
(* The e-print service: callers of one client.  An operation runs up to    *)
(* c.httpClient.Do(req), where it waits for the transport, and from the    *)
(* transport's answer to its return.                                       *)
(***************************************************************************)
Callers == {"c1", "c2"}

\* the options List is called with: nil, the zero value, and values with
\* maxResults below, at and above zero
ListArguments ==
    {NilOptions,
     Ref(ZeroOptions),
     Ref(EprintListOptions(<<"a", " ", "b">>, <<>>, 0 - 1, 0, <<>>, <<>>)),
     Ref(EprintListOptions(<<>>, <<Str("2101.00001"), Str("e2")>>, 0, 2,
                           <<>>, Str("ascending"))),
     Ref(EprintListOptions(<<"a", "&", "b">>, <<>>, 5, 0 - 1,
                           Str("submittedDate"), <<>>))}

NoCall == [op |-> "none", id |-> <<>>, opt |-> NilOptions, v |-> "nil"]

NoRequest == [Method |-> "", URL |-> URL(<<>>, <<>>, <<>>, <<>>)]

NoOutcome == [err |-> NoError, body |-> Body("none", <<>>)]

NoReturn == [val |-> NilPtr, err |-> NoError]

ClientInit ==
    /\ client = NewClient
    /\ pc = [c \in Callers |-> "idle"]
    /\ call = [c \in Callers |-> NoCall]
    /\ req = [c \in Callers |-> NoRequest]
    /\ sent = [c \in Callers |-> 0]
    /\ tr = [c \in Callers |-> NoOutcome]
    /\ body = [c \in Callers |-> 0]
    /\ ret = [c \in Callers |-> NoReturn]

\* caller c builds the request for the "query" endpoint with options o and
\* hands it to the transport
Send(c, theCall, o) ==
    LET u == url("query", o)
        nr == NewRequest(client, "GET", URLString(u))
    IN /\ pc[c] = "idle"
       /\ call' = [call EXCEPT ![c] = theCall]
       /\ client' = nr.client
       /\ req' = [req EXCEPT ![c] = nr.req]
       /\ sent' = [sent EXCEPT ![c] = @ + 1]
       /\ pc' = [pc EXCEPT ![c] = "transport"]
       /\ UNCHANGED <<tr, body, ret>>

\* s.Get(id), up to the transport
Get(c) ==
    \E id \in Ids :
        Send(c, [op |-> "Get", id |-> id, opt |-> NilOptions, v |-> "feed"],
             GetOptions(id))

\* s.List(opt), up to the transport
List(c) ==
    \E o \in ListArguments :
        Send(c, [op |-> "List", id |-> <<>>, opt |-> o, v |-> "feed"], o)

\* c.Do(req, v) called directly, with a request NewRequest made for "query"
CallDo(c) ==
    \E v \in Destinations :
        Send(c, [op |-> "Do", id |-> <<>>, opt |-> NilOptions, v |-> v],
             NilOptions)

\* the transport answers caller c, and the operation runs to its return
Return(c) ==
    /\ pc[c] = "transport"
    /\ \E t \in Outcomes :
        LET d == Do(req[c], call[c].v, t)
        IN /\ tr' = [tr EXCEPT ![c] = t]
           /\ body' = [body EXCEPT ![c] = d.closes]
           /\ ret' = [ret EXCEPT ![c] =
                        CASE call[c].op = "Get" -> GetResult(d)
                          [] call[c].op = "List" -> ListResult(d)
                          [] OTHER -> [val |-> d.resp, err |-> d.err]]
    /\ pc' = [pc EXCEPT ![c] = "done"]
    /\ UNCHANGED <<client, call, req, sent>>

Init == ClientInit /\ OptInitIdle /\ SearchInitIdle

Next ==
    \E c \in Callers :
        \/ Get(c) /\ UNCHANGED <<optVars, searchVars>>
        \/ List(c) /\ UNCHANGED <<optVars, searchVars>>
        \/ CallDo(c) /\ UNCHANGED <<optVars, searchVars>>
        \/ Return(c) /\ UNCHANGED <<optVars, searchVars>>

\* the e-print service under concurrent callers
Spec == Init /\ [][Next]_vars

OptionsInit == ClientInit /\ OptInit /\ SearchInitIdle

OptionsNext ==
    \/ EncodeOptions /\ UNCHANGED <<clientVars, searchVars>>
    \/ ParseBack /\ UNCHANGED <<clientVars, searchVars>>
    \/ Effective /\ UNCHANGED <<clientVars, searchVars>>

\* the option model on its own
SpecOptions == OptionsInit /\ [][OptionsNext]_vars

SearchSpecInit == ClientInit /\ OptInitIdle /\ SearchInit

SearchNext == CallString /\ UNCHANGED <<clientVars, optVars>>

\* SearchOptions.String on its own
SpecSearch == SearchSpecInit /\ [][SearchNext]_vars

(***************************************************************************)
(* Properties.                                                             *)
(***************************************************************************)
\* caller c's operation has returned
Done(c) == pc[c] = "done"

\* the transport gave caller c a response (and no error)
Responded(c) == Done(c) /\ tr[c].err = NoError

\* the positions of the entry elements in the document caller c received
EntryPositions(c) ==
    {i \in 1..Len(tr[c].body.children) : tr[c].body.children[i].tag = "entry"}

\* caller c received a <feed> document, which decodes
GotFeed(c) == Responded(c) /\ tr[c].body.kind = "feed"

\* caller c's response body could not be read or decoded into its destination
DecodeFailed(c) ==
    /\ Responded(c)
    /\ \/ call[c].v = "feed" /\ tr[c].body.kind \in {"ioerror", "malformed", "html"}
       \/ call[c].v = "bytes" /\ tr[c].body.kind = "ioerror"

\* caller c's operation returned no e-print, no list and no response
ReturnedNothing(c) ==
    ret[c].val = IF call[c].op = "List" THEN NilSlice ELSE NilPtr

\* C1: when the response decodes into a feed with zero entries, Get and
\* List return no result and the error ErrEprintNotFound, never an empty
\* list or a nil e-print with a nil error.
C1_ZeroEntriesNotFound ==
    \A c \in Callers :
        (GotFeed(c) /\ call[c].op \in {"Get", "List"} /\ EntryPositions(c) = {})
        => /\ ret[c].err = ErrEprintNotFound
           /\ ReturnedNothing(c)

\* Get and List have both returned for a feed without entries, one of the
\* feeds holding another element
C1_Witness ==
    /\ GotFeed("c1") /\ call["c1"].op = "Get" /\ EntryPositions("c1") = {}
    /\ GotFeed("c2") /\ call["c2"].op = "List" /\ EntryPositions("c2") = {}
    /\ Len(tr["c2"].body.children) > 0
    /\ ret["c1"].err = ErrEprintNotFound /\ ret["c2"].err = ErrEprintNotFound

\* C2: Get(id) hands the transport exactly one GET request for the "query"
\* endpoint whose query string holds id_list = id and nothing else, and when
\* the feed has at least one entry it returns the first entry in document
\* order with a nil error.
C2_GetFirstEntry ==
    \A c \in Callers :
        (call[c].op = "Get" /\ pc[c] # "idle")
        => /\ sent[c] = 1
           /\ req[c].Method = "GET"
           /\ req[c].URL.Path = <<"/", "api", "/", "query">>
           /\ req[c].URL.RawQuery = <<"id_list", "=">> \o QueryEscape(call[c].id)
           /\ \A i \in 1..Len(req[c].URL.RawQuery) : req[c].URL.RawQuery[i] # "&"
           /\ (GotFeed(c) /\ EntryPositions(c) # {})
              => LET first == CHOOSE i \in EntryPositions(c) :
                                  \A j \in EntryPositions(c) : i <= j
                 IN /\ ret[c].val = Ptr(Eprint(tr[c].body.children[first].id))
                    /\ ret[c].err = NoError

\* Get has returned the first of two different entries
C2_Witness ==
    /\ GotFeed("c1") /\ call["c1"].op = "Get"
    /\ call["c1"].id = <<"1", ",", "2">>
    /\ tr["c1"].body.children = <<Element("entry", "e2"), Element("entry", "e1")>>
    /\ ret["c1"] = [val |-> Ptr(Eprint("e2")), err |-> NoError]

\* C3: for a feed with n >= 1 entries List returns exactly those n entries
\* in document order, with a nil error.
C3_ListAllInOrder ==
    \A c \in Callers :
        (GotFeed(c) /\ call[c].op = "List" /\ EntryPositions(c) # {})
        => LET got == ret[c].val.elems
               doc == tr[c].body.children
           IN /\ ret[c].err = NoError
              /\ ~ret[c].val.nil
              /\ Len(got) = Cardinality(EntryPositions(c))
              /\ \E f \in [1..Len(got) -> EntryPositions(c)] :
                    /\ \A i, j \in 1..Len(got) : i < j => f[i] < f[j]
                    /\ \A i \in 1..Len(got) : got[i] = Eprint(doc[f[i]].id)

\* List has returned two different entries in the order of the document
C3_Witness ==
    /\ GotFeed("c2") /\ call["c2"].op = "List"
    /\ tr["c2"].body.children = <<Element("entry", "e2"), Element("entry", "e1")>>
    /\ ret["c2"].val = Slice(<<Eprint("e2"), Eprint("e1")>>)

\* C4: for options with maxResults <= 0 the max_results value in the query
\* string of the request List sends is DefaultMaxResults.
C4_DefaultMaxResultsEncoded ==
    \A c \in Callers :
        (call[c].op = "List" /\ pc[c] # "idle" /\ ~call[c].opt.nil
         /\ call[c].opt.v.MaxResults <= 0)
        => ValueOf(ParseQuery(req[c].URL.RawQuery), "max_results")
               = Itoa(DefaultMaxResults)

\* C5: the effective start, sortBy and sortOrder are always valid: a
\* negative start gives 0 and any other start is kept; a sortBy outside
\* {relevance, lastUpdatedDate, submittedDate} gives relevance and a member
\* is kept; a sortOrder outside {ascending, descending} gives descending and
\* a member is kept.
C5_EffectiveValid ==
    LET bys == {Str("relevance"), Str("lastUpdatedDate"), Str("submittedDate")}
        orders == {Str("ascending"), Str("descending")}
    IN stage = "effective"
       => /\ eff.start >= 0
          /\ eff.sortBy \in bys
          /\ eff.sortOrder \in orders
          /\ opt.Start < 0 => eff.start = 0
          /\ opt.Start >= 0 => eff.start = opt.Start
          /\ opt.SortBy \notin bys => eff.sortBy = Str("relevance")
          /\ opt.SortBy \in bys => eff.sortBy = opt.SortBy
          /\ opt.SortOrder \notin orders => eff.sortOrder = Str("descending")
          /\ opt.SortOrder \in orders => eff.sortOrder = opt.SortOrder

\* invalid values of all three were replaced
C5_Witness ==
    /\ stage = "effective"
    /\ opt.Start < 0 /\ opt.SortBy = Str("bogus") /\ opt.SortOrder = <<>>
    /\ eff.start = 0 /\ eff.sortBy = Str("relevance")
    /\ eff.sortOrder = Str("descending")

\* the error Do builds for caller c: its request's method and URI, a cause
WrappedFor(c) ==
    /\ ret[c].err.kind = "error reading response"
    /\ ret[c].err.method = req[c].Method
    /\ ret[c].err.uri = <<"/", "api", "/", "query">>
                          \o (IF req[c].URL.RawQuery = <<>> THEN <<>>
                              ELSE <<"?">> \o req[c].URL.RawQuery)
    /\ ret[c].err.cause # ""

NoCommaInIds(o) ==
    \A i \in 1..Len(o.IDList) :
        \A j \in 1..Len(o.IDList[i]) : o.IDList[i][j] # ","

ExpectedClauses ==
    {Clause(k, SearchMap(sopt)[k]) : k \in {x \in SearchKeys : SearchMap(sopt)[x] # <<>>}}

\* C8: with All non-empty String returns "all:" followed by All; with All
\* empty it returns one clause key:value for each non-empty field among ti,
\* au, abs, jr, cat and none for an empty field, joined by " AND " in some
\* order, the empty string when every field is empty.
C8_SearchString ==
    sres # <<>>
    => LET s == sres[1]
           clauses == Split(s, " AND ")
       IN /\ sopt.All # <<>> => s = <<"all", ":">> \o sopt.All
          /\ (sopt.All = <<>> /\ ExpectedClauses = {}) => s = <<>>
          /\ (sopt.All = <<>> /\ ExpectedClauses # {})
             => /\ {clauses[i] : i \in 1..Len(clauses)} = ExpectedClauses
                /\ Len(clauses) = Cardinality(ExpectedClauses)

\* String has joined the clauses of three fields, with two fields empty
C8_Witness ==
    /\ sres # <<>> /\ sopt.All = <<>>
    /\ Cardinality(ExpectedClauses) = 3
    /\ sopt.Author = <<>> /\ sopt.Title = <<"foo">>
    /\ Len(Split(sres[1], " AND ")) = 3

\* C9: whenever the transport returned a response, its body has been closed
\* exactly once when Do has returned, on every path: decoded, read as bytes,
\* failed to decode or read, and no destination.
C9_BodyClosedOnce == \A c \in Callers : Responded(c) => body[c] = 1

\* Do has returned after a failed decode and after a call without destination
C9_Witness ==
    /\ DecodeFailed("c1") /\ body["c1"] = 1
    /\ Responded("c2") /\ call["c2"].v = "nil" /\ body["c2"] = 1

\* the options of the request a call builds
OptionsOf(theCall) ==
    CASE theCall.op = "Get" -> GetOptions(theCall.id)
      [] theCall.op = "List" -> theCall.opt
      [] OTHER -> NilOptions

\* the request a call sends on a client nothing else uses
RequestAlone(theCall) ==
    NewRequest(NewClient, "GET", URLString(url("query", OptionsOf(theCall)))).req

\* what a call returns on a client nothing else uses, for transport answer t
ReturnAlone(theCall, t) ==
    LET d == Do(RequestAlone(theCall), theCall.v, t)
    IN CASE theCall.op = "Get" -> GetResult(d)
         [] theCall.op = "List" -> ListResult(d)
         [] OTHER -> [val |-> d.resp, err |-> d.err]

\* C10: no call writes the client (the base URL and the transport stay as
\* constructed), and under every interleaving each call sends the request
\* and returns the outcome it would on its own for the same transport answer.
C10_CallsIndependent ==
    /\ client.BaseURL = URL(Str("http"), Str("export.arxiv.org"),
                            <<"/", "api", "/">>, <<>>)
    /\ client.httpClient = "http.DefaultClient"
    /\ \A c \in Callers :
        /\ pc[c] # "idle" => req[c] = RequestAlone(call[c])
        /\ Done(c) => ret[c] = ReturnAlone(call[c], tr[c])

\* two different calls are waiting for the transport at the same time
C10_Witness ==
    /\ pc["c1"] = "transport" /\ pc["c2"] = "transport"
    /\ call["c1"].op = "Get" /\ call["c2"].op = "List"
    /\ req["c1"] # req["c2"]

=============================================================================
